---- MODULE Spec2Model ----
(***************************************************************************)
(* A model of scraper.py: the SoundCloud follower-network crawler.         *)
(*                                                                         *)
(*   find_client_id / extract_client_id_from_text   token discovery        *)
(*   fetch_followers_bfs                            the bounded BFS crawl  *)
(*   run_for_user                                   one seed               *)
(*   __main__                                       the seed orchestrator  *)
(*                                                                         *)
(* Three specifications: Spec is a whole run of __main__ over the seeds;   *)
(* FairSpec is Spec with the program never pausing (for termination);      *)
(* SpecFind applies find_client_id to every input of a bounded family.     *)
(***************************************************************************)
EXTENDS Integers, Sequences, FiniteSets, TLC

\* ---------------------------------------------------------------- bounds
\* Number of account ids the API may return (ids 1..NumIds).
NumIds == 2
\* Number of seeds in the artists list (10 in the source).
NumSeeds == 2
\* Longest text (in items) of a profile page.
MaxHtml == 3
\* Number of accounts that only a seed can resolve to: no followers or followings
\* list mentions them (ids NumIds+1 .. NumIds+NumUnlisted).
NumUnlisted == 1

\* ------------------------------------------------------ program constants
\* scraper.py:37, 10000 in the source, scaled down.
MAX_NODES_PER_ARTIST == 2
\* scraper.py:38, 100 in the source, scaled down.
MAX_FOLLOWERS_PER_USER == 1
\* Longest "collection" a response carries: one record more than the cut keeps.
MaxPage == MAX_FOLLOWERS_PER_USER + 1
\* scraper.py:24-29, the number of entries of CLIENT_ID_PATTERNS.
NumPatterns == 4

VARIABLES
  pc,                      \* where the run is: main, loop, followings, done, crashed, interrupted
  seed,                    \* index into artists of the seed __main__ handles next / now
  fallback_client_id,      \* __main__'s fallback_client_id
  client_id,               \* run_for_user's client_id after discovery
  nodes,                   \* graph: the node set
  edges,                   \* graph: multiplicity of every ordered pair
  is_artist,               \* graph: the nodes carrying the attribute is_artist=True
  visited,                 \* the visited set shared by all seeds
  queue,                   \* the current seed's deque
  root,                    \* run_for_user's user_id (the seed's root account)
  artist_start_node_count, \* run_for_user's artist_start_node_count
  user_id,                 \* fetch_followers_bfs: the account popped last
  follower_data,           \* fetch_followers_bfs: the followers response awaiting its parse
  followers_to_add,        \* fetch_followers_bfs: followers list after the [:K] cut
  followings_to_add,       \* fetch_followers_bfs: followings list after the [:K] cut
  ev,                      \* what the last step printed (its log line)
  slept,                   \* TRUE when time.sleep ran since the last HTTP request of the crawl
  requests,                \* history: the followers requests issued so far
  reinserted,              \* history: add_edge was called for a pair already stored
  following_kind,          \* history: what the last followings request gave (status, or kind of the body)
  persisted,               \* the graph written to disk, saved = FALSE while nothing was written
  artists,                 \* __main__'s artists list: the account ids its usernames resolve to
  fc_in,                   \* SpecFind: the input of find_client_id
  fc_out                   \* SpecFind: its result

crawlVars == <<pc, seed, fallback_client_id, client_id, nodes, edges, is_artist, visited,
               queue, root, artist_start_node_count, user_id, follower_data,
               followers_to_add, followings_to_add, ev, slept, requests, reinserted,
               following_kind, persisted, artists>>
findVars == <<fc_in, fc_out>>
vars == <<crawlVars, findVars>>

\* ------------------------------------------------------------- utilities
SeqMin(S) == CHOOSE x \in S : \A y \in S : x <= y
SeqMax(S) == CHOOSE x \in S : \A y \in S : x >= y

\* All sequences over S of length at most n.
SeqsUpTo(S, n) == UNION {[1..k -> S] : k \in 0..n}

\* Python's None where a token is expected.
NoToken == "<None>"

\* ================================================================
\* Token discovery: extract_client_id_from_text, find_client_id
\* ================================================================
\* A text (page HTML, script body, blob) is a sequence of items:
\*   [k |-> "cid", a |-> p, b |-> t]   an occurrence of token t in the form that
\*                                     CLIENT_ID_PATTERNS[p] (and no other) matches
\*   [k |-> "script", a |-> 0, b |-> s] a <script src="s"> tag
\*   [k |-> "open"/"close", ...]       the  {"  and  "}  that delimit a blob
Tokens == {"tA", "tB"}
ScriptNames == {"s1", "s2"}
Cid(p, t) == [k |-> "cid", a |-> p, b |-> t]
ScriptTag(s) == [k |-> "script", a |-> 0, b |-> s]
OpenItem == [k |-> "open", a |-> 0, b |-> ""]
CloseItem == [k |-> "close", a |-> 0, b |-> ""]

\* pat.search(text) for CLIENT_ID_PATTERNS[p]: the leftmost match, NoToken for no match.
PatternSearch(p, text) ==
  LET hits == {i \in 1..Len(text) : text[i].k = "cid" /\ text[i].a = p}
  IN  IF hits = {} THEN NoToken ELSE text[SeqMin(hits)].b

\* extract_client_id_from_text: the patterns in list order, the first that matches wins.
extract_client_id_from_text(text) ==
  LET pats == {p \in 1..NumPatterns : PatternSearch(p, text) # NoToken}
  IN  IF pats = {} THEN NoToken ELSE PatternSearch(SeqMin(pats), text)

\* session.get(profile_url) + raise_for_status under try/except: the HTML searched.
\* page.fetch is "ok", "exc" (the request raised) or "err" (an error status).
PageHtml(page) == IF page.fetch = "ok" THEN page.html ELSE <<>>

\* re.findall(r'<script[^>]+src=...', html): the script sources in document order.
IsScriptItem(it) == it.k = "script"
ScriptUrlsReversed(html) ==
  LET tags == SelectSeq(html, IsScriptItem)
  IN  [i \in 1..Len(tags) |-> tags[Len(tags) + 1 - i].b]
ScriptUrls(html) ==
  LET tags == SelectSeq(html, IsScriptItem)
  IN  [i \in 1..Len(tags) |-> tags[i].b]

\* re.findall(r'({".{50,}"}|...)', html, re.DOTALL): the leftmost {" from which a
\* match exists, then greedily to the last "} of the document. Every blob is a
\* substring of html.
Blobs(html) ==
  LET opens  == {i \in 1..Len(html) : html[i].k = "open"}
      closes == {j \in 1..Len(html) : html[j].k = "close"}
      starts == {i \in opens : \E j \in closes : j > i + 1}
  IN  IF starts = {} THEN <<>>
      ELSE << SubSeq(html, SeqMin(starts), SeqMax(closes)) >>

\* The result of a call: raised, or returned val.
Returned(t) == [raised |-> FALSE, val |-> t]
Raised == [raised |-> TRUE, val |-> NoToken]

\* The loop over blobs, scraper.py:89-93, then return fallback.
RECURSIVE SearchBlobs(_, _)
SearchBlobs(blobs, fallback) ==
  IF blobs = <<>> THEN Returned(fallback)
  ELSE LET cid == extract_client_id_from_text(Head(blobs))
       IN  IF cid # NoToken THEN Returned(cid) ELSE SearchBlobs(Tail(blobs), fallback)

\* What the except clause of the script loop does with the rest of the work:
\* "continue" (go on with `after`).
ScriptFetchRaises(after) == Raised
OnScriptException(after) == after

\* The loop over script_urls, scraper.py:77-86, followed by the blobs and the fallback.
\* web[s] is the outcome of fetching script s: res "exc" (raised), "bad" (not rr.ok),
\* "ok"; text is the body.
RECURSIVE SearchScripts(_, _, _, _)
SearchScripts(urls, web, html, fallback) ==
  IF urls = <<>> THEN SearchBlobs(Blobs(html), fallback)
  ELSE LET rr   == web[Head(urls)]
           rest == SearchScripts(Tail(urls), web, html, fallback)
       IN  CASE rr.res = "exc" -> OnScriptException(rest)
             [] rr.res = "bad" -> rest
             [] OTHER ->
                  LET cid == extract_client_id_from_text(rr.text)
                  IN  IF cid # NoToken THEN Returned(cid) ELSE rest

\* The value of `return fallback`, scraper.py:95.
ReturnFallback(fallback) == fallback

find_client_id(page, web, fallback) ==
  LET html == PageHtml(page)
      cid  == extract_client_id_from_text(html)
  IN  IF cid # NoToken THEN Returned(cid)
      ELSE SearchScripts(ScriptUrls(html), web, html, ReturnFallback(fallback))

\* ---- the inputs SpecFind draws
CidItems == {Cid(1, "tA"), Cid(2, "tB"), Cid(3, "tA"), Cid(4, "tB")}
HtmlItems == CidItems \cup {ScriptTag(s) : s \in ScriptNames} \cup {OpenItem, CloseItem}
ScriptTexts == {<<>>} \cup {<<Cid(3, t)>> : t \in Tokens}
ScriptResults ==
  {[res |-> "exc", text |-> <<>>], [res |-> "bad", text |-> <<Cid(3, "tA")>>]}
  \cup {[res |-> "ok", text |-> x] : x \in ScriptTexts}
Pages ==
  {[fetch |-> "ok", html |-> h] : h \in SeqsUpTo(HtmlItems, MaxHtml)}
  \cup {[fetch |-> "exc", html |-> <<>>]}
  \cup {[fetch |-> "err", html |-> h] : h \in SeqsUpTo(HtmlItems, 1)}
Fallbacks == {NoToken, "tF"}
FindInputs ==
  {[page |-> p, web |-> w, fallback |-> f] :
     p \in Pages, w \in [ScriptNames -> ScriptResults], f \in Fallbacks}
NoInput == [page |-> [fetch |-> "exc", html |-> <<>>],
            web |-> [s \in ScriptNames |-> [res |-> "exc", text |-> <<>>]],
            fallback |-> NoToken]
Pending == [raised |-> FALSE, val |-> "<pending>"]

\* ================================================================
\* The graph (nx.DiGraph) and the API's answers
\* ================================================================
Ids == 1..NumIds

\* A raw user record of a "collection":
\*   t = "int"   a dict whose "id" is the integer n
\*   t = "none"  a dict with no "id" key (.get("id") is None)
\*   t = "str"   a dict whose "id" is the empty string
\*   t = "bad"   not a dict (a JSON number, string, list, null)
IdRec(i) == [t |-> "int", n |-> i]
NoIdRec == [t |-> "none", n |-> 0]
EmptyIdRec == [t |-> "str", n |-> 0]
BadRec == [t |-> "bad", n |-> 0]
RawRecs == {IdRec(i) : i \in Ids} \cup {NoIdRec, EmptyIdRec, BadRec}

\* str(record.get("id")): decimal digits for an integer, "None" for None, "" for "".
Str(rec) ==
  CASE rec.t = "int" -> ToString(rec.n)
    [] rec.t = "none" -> "None"
    [] OTHER -> ""

\* The accounts a username of the artists list can resolve to.
ArtistIds == 1..(NumIds + NumUnlisted)

\* Every node name the crawl can create.
Names == {ToString(i) : i \in ArtistIds} \cup {"None"}
NoName == ""

\* nx.DiGraph(): edges[<<u, v>>] is how many times the pair <<u, v>> is stored.
EmptyEdges == [e \in Names \X Names |-> 0]
EdgeSet(E) == {e \in DOMAIN E : E[e] > 0}
\* graph.number_of_edges()
NumberOfEdges(E) ==
  LET RECURSIVE Sum(_)
      Sum(S) == IF S = {} THEN 0
                ELSE LET e == CHOOSE x \in S : TRUE IN E[e] + Sum(S \ {e})
  IN  Sum(DOMAIN E)

\* graph.add_edge(u, v) on a DiGraph: both endpoints become nodes, and the adjacency
\* entry [u][v] is set, so a pair that is already present stays a single edge.
AddEdgeMulti(g, u, v) ==
  [g EXCEPT !.nodes = @ \cup {u, v},
            !.edges = [@ EXCEPT ![<<u, v>>] = IF @ < 2 THEN @ + 1 ELSE @],
            !.reinserted = @ \/ g.edges[<<u, v>>] > 0]
AddEdgeReplacing(g, u, v) ==
  [g EXCEPT !.nodes = {u, v},
            !.edges = [EmptyEdges EXCEPT ![<<u, v>>] = 1],
            !.reinserted = @ \/ g.edges[<<u, v>>] > 0]
AddEdge(g, u, v) ==
  [g EXCEPT !.nodes = @ \cup {u, v},
            !.edges = [@ EXCEPT ![<<u, v>>] = 1],
            !.reinserted = @ \/ g.edges[<<u, v>>] > 0]

\* A response of session.get for the followers / followings endpoint:
\*   status "exc"   the request raised (timeout, retries exhausted, connection error)
\*          "auth"  401 or 403
\*          "err"   any other status that is not 200
\*          "ok"    200, with a body of kind
\*                    "notjson"    .json() raises
\*                    "nonobject"  JSON, but not an object (.get raises AttributeError)
\*                    "nocoll"     an object without "collection"
\*                    "notlist"    an object whose "collection" is not a list
\*                    "list"       an object whose "collection" is the list coll
\* An error status comes with a JSON error object as its body (no "collection"); the
\* code never reads it.
Failure(s) ==
  [status |-> s, kind |-> IF s \in {"auth", "err"} THEN "nocoll" ELSE "notjson",
   coll |-> <<>>]
OkBody(k, c) == [status |-> "ok", kind |-> k, coll |-> c]
Responses ==
  {Failure(s) : s \in {"exc", "auth", "err"}}
  \cup {OkBody(k, <<>>) : k \in {"notjson", "nonobject", "nocoll", "notlist"}}
  \cup {OkBody("list", c) : c \in SeqsUpTo(RawRecs, MaxPage)}
NoResponse == Failure("none")

\* The request raised, or its status is 401/403, or any other status that is not 200,
\* scraper.py:149-163 and 166-180: the iteration ends with `continue`.
RequestFailedExcOnly(resp) == resp.status = "exc"
RequestFailed(resp) == resp.status \in {"exc", "auth", "err"}

\* resp.json() raises, scraper.py:182-188 and 196-201: the iteration ends with
\* `continue`.
ParseFailsLoose(resp) == resp.kind \in {"notjson", "nocoll", "notlist"}
ParseFails(resp) == resp.kind = "notjson"

\* json.get("collection", []) and the isinstance(list) test, scraper.py:191-193.
Collection(resp) == IF resp.kind = "list" THEN resp.coll ELSE <<>>

\* lst[:k]
Take(lst, k) == SubSeq(lst, 1, IF Len(lst) < k THEN Len(lst) ELSE k)

\* ================================================================
\* fetch_followers_bfs: the per-user for loop, scraper.py:218-237
\* ================================================================
\* g is the part of the state the loop changes: [nodes, edges, queue, reinserted], and
\* crashed: an AttributeError left the loop.

\* The ordered pair stored for a follower f of u, and for a following w of u.
FollowerEdgeReversed(f, u) == <<u, f>>
FollowerEdge(f, u) == <<f, u>>
FollowingEdge(u, w) == <<u, w>>

\* scraper.py:220-227.
AddFollowerQueueOnly(g, rec, u, vis) ==
  IF rec.t = "bad" THEN [g EXCEPT !.crashed = TRUE]
  ELSE IF Str(rec) = "" \/ Str(rec) \in vis THEN g
  ELSE [g EXCEPT !.queue = Append(@, Str(rec))]
AddFollower(g, rec, u, vis) ==
  IF rec.t = "bad" THEN [g EXCEPT !.crashed = TRUE]
  ELSE LET follower_id == Str(rec)
           e  == FollowerEdge(follower_id, u)
           g1 == AddEdge(g, e[1], e[2])
       IN  IF follower_id = "" THEN g
           ELSE IF follower_id \notin vis
                THEN [g1 EXCEPT !.queue = Append(@, follower_id)]
                ELSE g1

\* scraper.py:230-237.
AddFollowing(g, rec, u, vis) ==
  IF rec.t = "bad" THEN [g EXCEPT !.crashed = TRUE]
  ELSE LET following_id == Str(rec)
           e  == FollowingEdge(u, following_id)
           g1 == AddEdge(g, e[1], e[2])
       IN  IF following_id = "" THEN g
           ELSE IF following_id \notin vis
                THEN [g1 EXCEPT !.queue = Append(@, following_id)]
                ELSE g1

\* for i in range(max_len), from index i on (1-based here). An AttributeError
\* leaves the loop with what was added before it.
RECURSIVE Batch(_, _, _, _, _, _)
Batch(g, F, G, i, u, vis) ==
  LET max_len == IF Len(F) > Len(G) THEN Len(F) ELSE Len(G)
      g1 == IF i <= Len(F) THEN AddFollower(g, F[i], u, vis) ELSE g
      g2 == IF g1.crashed \/ i > Len(G) THEN g1 ELSE AddFollowing(g1, G[i], u, vis)
  IN  IF i > max_len \/ g.crashed THEN g
      ELSE IF g2.crashed THEN g2
      ELSE Batch(g2, F, G, i + 1, u, vis)

\* queue.popleft(), scraper.py:133: what is left of the deque.
PeekLeft(q) == q
PopLeft(q) == Tail(q)

\* graph.add_node(user_id, ..., is_artist=True), scraper.py:285, on the set of nodes
\* that carry is_artist=True: the attribute is set on the node, new or not.
AddNodeArtistOnly(attrs, r) == {r}
AddNodeArtist(attrs, r) == attrs \cup {r}

\* if user_id in visited, scraper.py:136.
NeverVisited(u, vis) == FALSE
AlreadyVisited(u, vis) == u \in vis

\* nodes_added_for_artist >= MAX_NODES_PER_ARTIST, scraper.py:124-128.
CapReachedStrict(ns, start) == Cardinality(ns) - start > MAX_NODES_PER_ARTIST
CapReached(ns, start) == Cardinality(ns) - start >= MAX_NODES_PER_ARTIST

\* ================================================================
\* The run: __main__, run_for_user, fetch_followers_bfs
\* ================================================================
NotSaved == [saved |-> FALSE, nodes |-> {}, edges |-> EmptyEdges]

\* What the profile page of a seed can be in a run: a page that carries a token,
\* a page whose token sits in a linked script, a page that cannot be fetched.
AllScriptsFail == [s \in ScriptNames |-> [res |-> "exc", text |-> <<>>]]
ProfileSites ==
  { [page |-> [fetch |-> "ok", html |-> <<Cid(1, "tA")>>], web |-> AllScriptsFail],
    [page |-> [fetch |-> "ok", html |-> <<ScriptTag("s1")>>],
     web |-> [AllScriptsFail EXCEPT !["s1"] = [res |-> "ok", text |-> <<Cid(3, "tA")>>]]],
    [page |-> [fetch |-> "exc", html |-> <<>>], web |-> AllScriptsFail] }

\* The resolve request of run_for_user, scraper.py:268-278: "fail" (the request raised,
\* an error status, a body that is not JSON), "noid" (no "id" in the object), or an id.
ResolveOutcomes == {[res |-> "fail", id |-> 0], [res |-> "noid", id |-> 0]}
                   \cup {[res |-> "ok", id |-> i] : i \in artists}

\* The state when the try block of __main__ is entered, scraper.py:320-330, whatever
\* the artists list is.
InitState ==
  /\ pc = "main"
  /\ seed = 1
  /\ fallback_client_id = NoToken
  /\ client_id = NoToken
  /\ nodes = {}
  /\ edges = EmptyEdges
  /\ is_artist = {}
  /\ visited = {}
  /\ queue = <<>>
  /\ root = NoName
  /\ artist_start_node_count = 0
  /\ user_id = NoName
  /\ follower_data = NoResponse
  /\ followers_to_add = <<>>
  /\ followings_to_add = <<>>
  /\ ev = "init"
  /\ slept = TRUE
  /\ requests = {}
  /\ reinserted = FALSE
  /\ following_kind = "none"
  /\ persisted = NotSaved
  /\ fc_in = NoInput
  /\ fc_out = Pending

\* Every seed is an account that followers and followings lists can mention.
Init ==
  /\ InitState
  /\ artists = Ids

\* The artists list also names an account that no list mentions.
InitUnlisted ==
  /\ InitState
  /\ artists = ArtistIds

\* An exception unwinds the frames of fetch_followers_bfs and run_for_user: their
\* locals are gone.
Unwind ==
  /\ client_id' = NoToken
  /\ queue' = <<>>
  /\ root' = NoName
  /\ artist_start_node_count' = 0
  /\ user_id' = NoName
  /\ follower_data' = NoResponse
  /\ followers_to_add' = <<>>
  /\ followings_to_add' = <<>>
  /\ following_kind' = "none"

\* An exception leaves run_for_user and the for loop of __main__; the handler
\* `except Exception` prints the traceback and raises again, scraper.py:364-368: the
\* run is over, nothing is written. why is the exception.
Crash(why) ==
  /\ pc' = "crashed"
  /\ ev' = why
  /\ Unwind

\* run_for_user up to the call of fetch_followers_bfs, scraper.py:248-300.
RunForUser ==
  /\ pc = "main"
  /\ seed <= NumSeeds
  /\ \E site \in ProfileSites, r \in ResolveOutcomes :
       LET discovered == find_client_id(site.page, site.web, fallback_client_id).val
       IN  IF discovered = NoToken
           THEN /\ Crash("no_client_id")
                /\ UNCHANGED <<nodes, is_artist>>
           ELSE IF r.res # "ok"
           THEN /\ Crash("resolve_failed")
                /\ UNCHANGED <<nodes, is_artist>>
           ELSE /\ pc' = "loop"
                /\ ev' = "bfs_start"
                /\ client_id' = discovered
                /\ root' = Str(IdRec(r.id))
                /\ artist_start_node_count' = Cardinality(nodes)
                /\ nodes' = nodes \cup {Str(IdRec(r.id))}
                /\ is_artist' = AddNodeArtist(is_artist, Str(IdRec(r.id)))
                /\ queue' = <<Str(IdRec(r.id))>>
                /\ UNCHANGED <<user_id, follower_data, followers_to_add,
                               followings_to_add, following_kind>>
  /\ slept' = TRUE
  /\ UNCHANGED <<seed, fallback_client_id, edges, visited, requests, reinserted,
                 persisted, artists, findVars>>

\* fetch_followers_bfs returns (the queue is empty, or the cap is reached), run_for_user
\* reports and returns client_id, __main__ moves to the next seed.
LoopReturn ==
  /\ pc = "loop"
  /\ queue = <<>> \/ CapReached(nodes, artist_start_node_count)
  /\ pc' = "main"
  /\ ev' = IF queue = <<>> THEN "queue_empty" ELSE "cap_reached"
  /\ seed' = seed + 1
  /\ fallback_client_id' = client_id
  /\ client_id' = NoToken
  /\ root' = NoName
  /\ artist_start_node_count' = 0
  /\ queue' = <<>>
  /\ user_id' = NoName
  /\ followers_to_add' = <<>>
  /\ followings_to_add' = <<>>
  /\ following_kind' = "none"
  /\ UNCHANGED <<nodes, edges, is_artist, visited, follower_data, slept, requests,
                 reinserted, persisted, artists, findVars>>

\* One iteration that pops an account already visited: continue.
LoopSkip ==
  /\ pc = "loop"
  /\ queue # <<>>
  /\ ~CapReached(nodes, artist_start_node_count)
  /\ AlreadyVisited(Head(queue), visited)
  /\ user_id' = Head(queue)
  /\ queue' = PopLeft(queue)
  /\ ev' = "skip_visited"
  /\ followers_to_add' = <<>>
  /\ followings_to_add' = <<>>
  /\ following_kind' = "none"
  /\ UNCHANGED <<pc, seed, fallback_client_id, client_id, nodes, edges, is_artist,
                 visited, root, artist_start_node_count, follower_data, slept, requests,
                 reinserted, persisted, artists, findVars>>

SleepsAfterExcOnly(status) == status = "exc"

\* Whether a failed request is followed by time.sleep(5) before `continue`,
\* scraper.py:151-163 and 168-180: after an exception and after an error status, not
\* after 401/403.
SleepsAfterFailure(status) == status # "auth"

\* One iteration that pops an account, marks it visited and issues the followers
\* request, scraper.py:133-163.
LoopFollowers ==
  /\ pc = "loop"
  /\ queue # <<>>
  /\ ~CapReached(nodes, artist_start_node_count)
  /\ ~AlreadyVisited(Head(queue), visited)
  /\ user_id' = Head(queue)
  /\ queue' = PopLeft(queue)
  /\ visited' = visited \cup {Head(queue)}
  /\ requests' = requests \cup {[id |-> Head(queue),
                                 revisit |-> Head(queue) \in visited,
                                 root |-> Head(queue) = root]}
  /\ followers_to_add' = <<>>
  /\ followings_to_add' = <<>>
  /\ following_kind' = "none"
  /\ \E resp \in Responses :
       CASE RequestFailed(resp) /\ resp.status = "exc" ->
              /\ ev' = "follower_request_failed" /\ slept' = SleepsAfterFailure(resp.status)
              /\ pc' = "loop" /\ follower_data' = NoResponse
         [] RequestFailed(resp) /\ resp.status = "auth" ->
              /\ ev' = "follower_auth_error" /\ slept' = SleepsAfterFailure(resp.status)
              /\ pc' = "loop" /\ follower_data' = NoResponse
         [] RequestFailed(resp) /\ resp.status = "err" ->
              /\ ev' = "follower_error" /\ slept' = SleepsAfterFailure(resp.status)
              /\ pc' = "loop" /\ follower_data' = NoResponse
         [] OTHER ->
              /\ ev' = "follower_ok" /\ slept' = FALSE
              /\ pc' = "followings" /\ follower_data' = resp
  /\ UNCHANGED <<seed, fallback_client_id, client_id, nodes, edges, is_artist, root,
                 artist_start_node_count, reinserted, persisted, artists, findVars>>

\* The rest of the iteration: the followings request, both parses, the cut to
\* MAX_FOLLOWERS_PER_USER, the for loop and the politeness sleep, scraper.py:165-240.
LoopFollowings ==
  /\ pc = "followings"
  /\ \E resp \in Responses :
       LET F  == Take(Collection(follower_data), MAX_FOLLOWERS_PER_USER)
           G  == Take(Collection(resp), MAX_FOLLOWERS_PER_USER)
           g0 == [nodes |-> nodes, edges |-> edges, queue |-> queue,
                  reinserted |-> reinserted, crashed |-> FALSE]
           g  == Batch(g0, F, G, 1, user_id, visited)
           kind == IF resp.status = "ok" THEN resp.kind ELSE resp.status
           skip(why, s) ==
             /\ ev' = why /\ slept' = s /\ pc' = "loop"
             /\ follower_data' = NoResponse
             /\ following_kind' = kind
             /\ UNCHANGED <<nodes, edges, queue, followers_to_add, followings_to_add,
                            client_id, root, artist_start_node_count, user_id,
                            reinserted>>
           raise ==
             /\ Crash("AttributeError") /\ slept' = FALSE
             /\ UNCHANGED <<nodes, edges, reinserted>>
       IN  CASE RequestFailed(resp) /\ resp.status = "exc" ->
                  skip("following_request_failed", SleepsAfterFailure(resp.status))
             [] RequestFailed(resp) /\ resp.status = "auth" ->
                  skip("following_auth_error", SleepsAfterFailure(resp.status))
             [] RequestFailed(resp) /\ resp.status = "err" ->
                  skip("following_error", SleepsAfterFailure(resp.status))
             [] ParseFails(follower_data) -> skip("follower_parse_error", TRUE)
             [] follower_data.kind = "nonobject" -> raise
             [] ParseFails(resp) -> skip("following_parse_error", TRUE)
             [] resp.kind = "nonobject" -> raise
             [] g.crashed ->
                  /\ Crash("AttributeError") /\ slept' = FALSE
                  /\ nodes' = g.nodes
                  /\ edges' = g.edges
                  /\ reinserted' = g.reinserted
             [] OTHER ->
                  /\ ev' = "expanded" /\ slept' = TRUE /\ pc' = "loop"
                  /\ nodes' = g.nodes
                  /\ edges' = g.edges
                  /\ reinserted' = g.reinserted
                  /\ queue' = g.queue
                  /\ followers_to_add' = F
                  /\ followings_to_add' = G
                  /\ follower_data' = NoResponse
                  /\ following_kind' = kind
                  /\ UNCHANGED <<client_id, root, artist_start_node_count, user_id>>
  /\ UNCHANGED <<seed, fallback_client_id, is_artist, visited, requests, persisted,
                 artists, findVars>>

\* After the last seed: pickle.dump(graph, f), scraper.py:345-357.
SaveFinal ==
  /\ pc = "main"
  /\ seed > NumSeeds
  /\ pc' = "done"
  /\ ev' = "graph_saved"
  /\ persisted' = [saved |-> TRUE, nodes |-> nodes, edges |-> edges]
  /\ UNCHANGED <<seed, fallback_client_id, client_id, nodes, edges, is_artist, visited,
                 queue, root, artist_start_node_count, user_id, follower_data,
                 followers_to_add, followings_to_add, slept, requests, reinserted,
                 following_kind, artists, findVars>>

\* KeyboardInterrupt anywhere in the try block: the handler prints "Saving progress..."
\* and "Partial graph saved to: ..." and writes nothing, scraper.py:360-363.
Interrupt ==
  /\ pc \in {"main", "loop", "followings"}
  /\ pc' = "interrupted"
  /\ Unwind
  /\ UNCHANGED <<seed, fallback_client_id, nodes, edges, is_artist, visited, ev, slept,
                 requests, reinserted, persisted, artists, findVars>>

Next ==
  \/ RunForUser
  \/ LoopReturn
  \/ LoopSkip
  \/ LoopFollowers
  \/ LoopFollowings
  \/ SaveFinal
  \/ Interrupt

Spec == Init /\ [][Next]_vars

\* The steps of the program itself: every step but the KeyboardInterrupt.
NextProgram ==
  \/ RunForUser
  \/ LoopReturn
  \/ LoopSkip
  \/ LoopFollowers
  \/ LoopFollowings
  \/ SaveFinal

\* The interpreter runs one thread and never pauses it: every request has a timeout
\* (scraper.py:150, 167) and every sleep is finite, so while the program has a next
\* step it takes one. The interrupt may come or not.
FairSpec == Spec /\ WF_vars(NextProgram)

\* The same program run on an artists list that names an unlisted account.
SpecUnlisted == InitUnlisted /\ [][Next]_vars

\* ---- SpecFind: find_client_id applied to every input of FindInputs
InitFind ==
  /\ pc = "find"
  /\ seed = 1
  /\ fallback_client_id = NoToken
  /\ client_id = NoToken
  /\ nodes = {}
  /\ edges = EmptyEdges
  /\ is_artist = {}
  /\ visited = {}
  /\ queue = <<>>
  /\ root = NoName
  /\ artist_start_node_count = 0
  /\ user_id = NoName
  /\ follower_data = NoResponse
  /\ followers_to_add = <<>>
  /\ followings_to_add = <<>>
  /\ ev = "init"
  /\ slept = TRUE
  /\ requests = {}
  /\ reinserted = FALSE
  /\ following_kind = "none"
  /\ persisted = NotSaved
  /\ artists = Ids
  /\ fc_in \in FindInputs
  /\ fc_out = Pending

FindClientId ==
  /\ pc = "find"
  /\ pc' = "found"
  /\ fc_out' = find_client_id(fc_in.page, fc_in.web, fc_in.fallback)
  /\ UNCHANGED <<seed, fallback_client_id, client_id, nodes, edges, is_artist, visited,
                 queue, root, artist_start_node_count, user_id, follower_data,
                 followers_to_add, followings_to_add, ev, slept, requests, reinserted,
                 following_kind, persisted, artists, fc_in>>

NextFind == FindClientId

SpecFind == InitFind /\ [][NextFind]_vars

\* ================================================================
\* Properties
\* ================================================================
\* The run is inside fetch_followers_bfs.
InCrawl == pc \in {"loop", "followings"}

\* The names a list of raw records contributes (records whose str(id) is empty
\* contribute nothing).
IdsOf(lst) == {Str(lst[i]) : i \in 1..Len(lst)} \ {""}

\* C1: during every seed's crawl, at every point, the number of nodes added for the
\* seed, graph.number_of_nodes() - artist_start_node_count, is at most
\* MAX_NODES_PER_ARTIST.
C1_NodesWithinCap ==
  InCrawl => Cardinality(nodes) - artist_start_node_count <= MAX_NODES_PER_ARTIST

\* C2: a followers request is issued for an account that was already in the visited
\* set only if the account is the current seed's root.
C2_NoRefetch == \A r \in requests : r.revisit => r.root

\* C2 witness: in the second seed's crawl an account that is not the root, and was
\* fetched before, is popped again and no request is made for it.
C2_Witness ==
  /\ pc = "loop"
  /\ seed = 2
  /\ ev = "skip_visited"
  /\ user_id # root
  /\ user_id \in visited
  /\ \E r \in requests : r.id = user_id

\* C3: the graph holds every ordered pair at most once: the number of edges is the
\* number of distinct pairs, also after add_edge was called for a pair already stored.
C3_NoDuplicateEdges ==
  /\ \A e \in DOMAIN edges : edges[e] <= 1
  /\ NumberOfEdges(edges) = Cardinality(EdgeSet(edges))

\* C3 witness: add_edge has been called for a pair that was already an edge, in the
\* second seed's crawl.
C3_Witness == reinserted /\ seed = 2 /\ ev = "expanded"

\* C4: when account u is expanded with a followers page F and a followings page G that
\* are within the fan-out limit, afterwards (f -> u) is an edge for every f of F and
\* (u -> g) for every g of G, the expansion adds no other edge (none in the reverse
\* direction), and the nodes added are exactly the ids of F and G, each once.
C4_ExpansionEdges ==
  [][ ( /\ pc = "followings"
        /\ ev' = "expanded"
        /\ Len(Collection(follower_data)) <= MAX_FOLLOWERS_PER_USER )
      => LET F == Collection(follower_data)
             G == followings_to_add'
             expected == {<<f, user_id>> : f \in IdsOf(F)}
                         \cup {<<user_id, w>> : w \in IdsOf(G)}
         IN  /\ \A e \in expected : edges'[e] = 1
             /\ \A e \in DOMAIN edges : edges'[e] # edges[e] => e \in expected
             /\ nodes' = nodes \cup IdsOf(F) \cup IdsOf(G)
             /\ Cardinality(nodes') <= Cardinality(nodes) + Cardinality(IdsOf(F) \cup IdsOf(G))
    ]_vars

\* C4 witness: account "1" was expanded with followers [2] and followings [2]: both
\* directions are edges and "2" is one node.
C4_Witness ==
  /\ ev = "expanded"
  /\ user_id = "1"
  /\ followers_to_add = <<IdRec(2)>>
  /\ followings_to_add = <<IdRec(2)>>
  /\ edges[<<"2", "1">>] = 1
  /\ edges[<<"1", "2">>] = 1
  /\ nodes = {"1", "2"}

\* The last step before the interrupt was a step of a crawl.
InterruptedMidCrawl ==
  pc = "interrupted" /\ ev \notin {"init", "queue_empty", "cap_reached"}

\* C5: after a KeyboardInterrupt in the middle of a crawl, a graph has been written
\* that is not empty and holds every node and edge of the in-memory graph.
C5_InterruptPersists ==
  InterruptedMidCrawl =>
    /\ persisted.saved
    /\ persisted.nodes # {}
    /\ nodes \subseteq persisted.nodes
    /\ EdgeSet(edges) \subseteq EdgeSet(persisted.edges)

\* C6: a failed resolve of a seed does not terminate the run.
C6_ResolveFailureNotFatal == ~(pc = "crashed" /\ ev = "resolve_failed")

\* C7: no outcome of the followers or followings request makes fetch_followers_bfs
\* raise.
C7_BfsNeverRaises == ~(pc = "crashed" /\ ev = "AttributeError")

\* The content sources of a lookup in search order: the page, the bodies of the
\* scripts that could be fetched in the order of their tags, the blobs.
ScriptBodies(html, web) ==
  LET tags == SelectSeq(html, IsScriptItem)
  IN  [i \in 1..Len(tags) |->
         IF web[tags[i].b].res = "ok" THEN web[tags[i].b].text ELSE <<>>]
Sources(in) ==
  LET html == PageHtml(in.page)
  IN  <<html>> \o ScriptBodies(html, in.web) \o Blobs(html)
HasToken(text) == \E i \in 1..Len(text) : text[i].k = "cid"

\* C8: find_client_id returns the token of the first source, in the order page,
\* scripts in document order, blobs, that contains one, and the fallback when none does.
C8_FirstSourceWins ==
  pc = "found" =>
    LET src  == Sources(fc_in)
        hits == {i \in 1..Len(src) : HasToken(src[i])}
    IN  /\ ~fc_out.raised
        /\ IF hits = {} THEN fc_out.val = fc_in.fallback
           ELSE /\ fc_out.val = extract_client_id_from_text(src[SeqMin(hits)])
                /\ \E i \in 1..Len(src[SeqMin(hits)]) :
                     /\ src[SeqMin(hits)][i].k = "cid"
                     /\ src[SeqMin(hits)][i].b = fc_out.val

\* C8 witness: the page has no token, its first script tag is s2 and its second s1, both
\* bodies carry a token, and the lookup returned the token of s2.
C8_Witness ==
  /\ pc = "found"
  /\ fc_in.page = [fetch |-> "ok", html |-> <<ScriptTag("s2"), ScriptTag("s1")>>]
  /\ fc_in.web["s2"] = [res |-> "ok", text |-> <<Cid(3, "tB")>>]
  /\ fc_in.web["s1"] = [res |-> "ok", text |-> <<Cid(3, "tA")>>]
  /\ fc_out = Returned("tB")

\* C9: find_client_id never raises; a profile page that could not be fetched gives the
\* fallback; a script whose fetch raised is skipped and the next script is searched.
C9_FetchFailureSwallowed ==
  pc = "found" =>
    LET html == PageHtml(fc_in.page)
        urls == ScriptUrls(html)
    IN  /\ ~fc_out.raised
        /\ fc_in.page.fetch # "ok" => fc_out.val = fc_in.fallback
        /\ \A i \in 1..Len(urls) :
             ( /\ ~HasToken(html)
               /\ \A j \in 1..(i - 1) : fc_in.web[urls[j]].res = "exc"
               /\ fc_in.web[urls[i]].res = "ok"
               /\ HasToken(fc_in.web[urls[i]].text) )
             => fc_out.val = extract_client_id_from_text(fc_in.web[urls[i]].text)

\* C9 witness: the fetch of the first script raised, the second script carries a token
\* and the lookup returned it.
C9_Witness ==
  /\ pc = "found"
  /\ fc_in.page = [fetch |-> "ok", html |-> <<ScriptTag("s1"), ScriptTag("s2")>>]
  /\ fc_in.web["s1"].res = "exc"
  /\ fc_in.web["s2"] = [res |-> "ok", text |-> <<Cid(3, "tB")>>]
  /\ fc_out = Returned("tB")

\* C10: a seed for which no token is found, with no fallback from an earlier seed, does
\* not terminate the run.
C10_NoTokenNotFatal == ~(pc = "crashed" /\ ev = "no_client_id")

\* The raw records of a list.
Recs(lst) == {lst[i] : i \in 1..Len(lst)}

\* The fields of a raw user record that the classifier of the specification reads.
\* scraper.py reads none of them. Every third account from 1 on has tracks and 2000
\* followers, every third from 3 on is verified, the others have neither; a record
\* without an integer id carries no field.
UserFields(rec) ==
  [track_count |-> IF rec.t = "int" /\ rec.n % 3 = 1 THEN 5 ELSE 0,
   followers_count |-> IF rec.t = "int" /\ rec.n % 3 = 1 THEN 2000 ELSE 0,
   verified |-> rec.t = "int" /\ rec.n % 3 = 0,
   badges_verified |-> FALSE]

\* The classifier of the specification, section 4.3; scraper.py has no such function.
isNotable(rec) ==
  LET f == UserFields(rec)
  IN  \/ f.track_count > 0 /\ f.followers_count > 1000
      \/ f.badges_verified
      \/ f.verified

\* C12: every node that an expansion creates carries is_artist=True exactly when the
\* classifier is true of the raw record that introduced it.
C12_ClassifierAttribute ==
  [][ (pc = "followings" /\ ev' = "expanded")
      => \A rec \in Recs(followers_to_add') \cup Recs(followings_to_add') :
           Str(rec) \in nodes' \ nodes => ((Str(rec) \in is_artist') = isNotable(rec))
    ]_vars

\* C13: the root of a seed is never skipped by the visited test: when it is popped at
\* the start of the seed's crawl and is already in visited, it is fetched all the same.
C13_RootRefetched == ~(pc = "loop" /\ ev = "skip_visited" /\ user_id = root)

\* C14: every crawl ends (fetch_followers_bfs is left, by return, exception or
\* interrupt), whatever the responses are, and it returns only when the queue is empty
\* or the nodes added for the seed have reached MAX_NODES_PER_ARTIST.
C14_CrawlTerminates ==
  /\ InCrawl ~> ~InCrawl
  /\ [][ (pc = "loop" /\ pc' = "main")
         => \/ queue = <<>>
            \/ Cardinality(nodes) - artist_start_node_count >= MAX_NODES_PER_ARTIST
       ]_vars

\* C14 witness: a crawl that expanded an account has returned with an empty queue
\* below the cap.
C14_Witness ==
  /\ pc = "main"
  /\ ev = "queue_empty"
  /\ EdgeSet(edges) # {}
  /\ Cardinality(nodes) < MAX_NODES_PER_ARTIST

\* x is an entry of the deque q.
InQueue(q, x) == \E i \in 1..Len(q) : q[i] = x

\* The step has applied the lists F (followers) and G (followings) to user_id: their
\* edges are in the graph, and their accounts not yet visited are in the queue.
Applied(F, G) ==
  /\ \A f \in IdsOf(F) :
       /\ edges'[<<f, user_id>>] = 1
       /\ f \notin visited => InQueue(queue', f)
  /\ \A w \in IdsOf(G) :
       /\ edges'[<<user_id, w>>] = 1
       /\ w \notin visited => InQueue(queue', w)

\* C15: when one of the two bodies is not JSON or has no "collection" and the other is
\* a list, the node is expanded all the same: the malformed call counts as an empty
\* list, and the edges and queue entries of the other list are added.
C15_MalformedAsEmpty ==
  [][ ( /\ pc = "followings"
        /\ pc' = "loop"
        /\ \/ follower_data.kind \in {"notjson", "nocoll"} /\ following_kind' = "list"
           \/ follower_data.kind = "list" /\ following_kind' \in {"notjson", "nocoll"} )
      => /\ ev' = "expanded"
         /\ followers_to_add' = Take(Collection(follower_data), MAX_FOLLOWERS_PER_USER)
         /\ Applied(followers_to_add', followings_to_add')
    ]_vars

\* C15 as the code has it: a body that is a JSON object without "collection", or whose
\* "collection" is not a list, counts as an empty list and the node is expanded with
\* the other list; a body that is not JSON ends the iteration: the graph and the queue
\* stay as they were.
C15_MissingCollectionAsEmpty ==
  [][ (pc = "followings" /\ pc' = "loop")
      => /\ ( \/ /\ follower_data.kind \in {"nocoll", "notlist"}
                 /\ following_kind' = "list"
              \/ /\ follower_data.kind = "list"
                 /\ following_kind' \in {"nocoll", "notlist"} )
            => /\ ev' = "expanded"
               /\ followers_to_add' =
                    Take(Collection(follower_data), MAX_FOLLOWERS_PER_USER)
               /\ following_kind' # "list" => followings_to_add' = <<>>
               /\ Applied(followers_to_add', followings_to_add')
         /\ (follower_data.kind = "notjson" \/ following_kind' = "notjson")
            => /\ ev' # "expanded"
               /\ nodes' = nodes
               /\ edges' = edges
               /\ queue' = queue
    ]_vars

\* C15 witness: account "1" got the followers [2] and a followings body without
\* "collection"; it was expanded: (2 -> 1) is an edge and "2" is in the queue.
C15_Witness ==
  /\ ev = "expanded"
  /\ following_kind = "nocoll"
  /\ user_id = "1"
  /\ followers_to_add = <<IdRec(2)>>
  /\ followings_to_add = <<>>
  /\ edges[<<"2", "1">>] = 1
  /\ InQueue(queue, "2")

\* C16: an iteration whose followers request, or whose followings request, failed (it
\* raised, 401/403, any other status that is not 200) adds no node and no edge and
\* appends nothing to the queue, also when the followers request had succeeded; the
\* account stays in visited and the loop moves on, so the request is not issued again.
C16_FailedRequestNoEffect ==
  [][ /\ (pc = "loop" /\ pc' = "loop" /\ visited' # visited)
         => /\ ev' \in {"follower_request_failed", "follower_auth_error", "follower_error"}
            /\ nodes' = nodes
            /\ edges' = edges
            /\ queue' = Tail(queue)
            /\ user_id' \in visited'
            /\ \A r \in requests' : ~r.revisit
      /\ (pc = "followings" /\ following_kind' \in {"exc", "auth", "err"})
         => /\ ev' \in {"following_request_failed", "following_auth_error",
                        "following_error"}
            /\ pc' = "loop"
            /\ nodes' = nodes
            /\ edges' = edges
            /\ queue' = queue
            /\ requests' = requests
            /\ user_id \in visited'
    ]_vars

\* C16 witness: the followers request of the root succeeded, its followings request got
\* an error status: the graph is the root alone, with no edge, and the queue is empty.
C16_Witness ==
  /\ pc = "loop"
  /\ ev = "following_error"
  /\ following_kind = "err"
  /\ user_id = root
  /\ root \in visited
  /\ nodes = {root}
  /\ EdgeSet(edges) = {}
  /\ queue = <<>>

\* C17: an expansion processes at most MAX_FOLLOWERS_PER_USER records of each list when
\* the account is not the seed's root, and the first L records of each list, for a
\* limit L strictly larger than MAX_FOLLOWERS_PER_USER, when it is the root.
C17_RootLimitLarger ==
  [][ (pc = "followings" /\ ev' = "expanded")
      => IF user_id = root
         THEN \E L \in (MAX_FOLLOWERS_PER_USER + 1)..MaxPage :
                followers_to_add' =
                  SubSeq(Collection(follower_data), 1,
                         IF Len(Collection(follower_data)) < L
                         THEN Len(Collection(follower_data)) ELSE L)
         ELSE /\ Len(followers_to_add') <= MAX_FOLLOWERS_PER_USER
              /\ Len(followings_to_add') <= MAX_FOLLOWERS_PER_USER
    ]_vars

\* C18: when an account is expanded, every other account of the whole followers list
\* returned for it that is already a node has its edge to the account afterwards, not
\* only the ids among the first MAX_FOLLOWERS_PER_USER records. (The same is claimed
\* of the followings list; the followers list is the one whose response the state
\* keeps.)
C18_DensifiedWholePage ==
  [][ (pc = "followings" /\ ev' = "expanded")
      => \A f \in (IdsOf(Collection(follower_data)) \cap nodes) \ {user_id} :
           edges'[<<f, user_id>>] = 1
    ]_vars

\* C19: the is_artist attribute of a node that exists is never changed and never newly
\* set by a later step, be it an expansion that meets the node again or the node being
\* taken as the root of a seed.
C19_IsArtistFixed ==
  [][ \A n \in nodes : (n \in is_artist') = (n \in is_artist) ]_vars

\* C19 as the code has it: no step of a crawl changes or sets is_artist, whatever
\* lists a node is met in; the one step that sets it is run_for_user taking the node
\* as a seed's root, which sets it to True whether the node existed or not, and leaves
\* the attribute of every other node as it was.
C19_OnlySeedRootSetsIsArtist ==
  [][ /\ (pc = "main" /\ pc' = "loop") => is_artist' = is_artist \cup {root'}
      /\ ~(pc = "main" /\ pc' = "loop") => is_artist' = is_artist
    ]_vars

\* C19 witness: the crawl of a seed begins whose root was created earlier by an
\* expansion (it has an edge and was never popped): the root was a node already and
\* carries is_artist=True now, the root of the first seed still carries it.
C19_Witness ==
  /\ pc = "loop"
  /\ ev = "bfs_start"
  /\ seed = 2
  /\ artist_start_node_count = Cardinality(nodes)
  /\ root \notin visited
  /\ \E e \in EdgeSet(edges) : root \in {e[1], e[2]}
  /\ root \in is_artist
  /\ Cardinality(is_artist) = 2

\* C20: no step of the run removes a node or an edge, and from one step of a seed's
\* crawl to the next the number of nodes added for the seed,
\* graph.number_of_nodes() - artist_start_node_count, does not decrease.
C20_GraphOnlyGrows ==
  [][ /\ nodes \subseteq nodes'
      /\ EdgeSet(edges) \subseteq EdgeSet(edges')
      /\ (InCrawl /\ InCrawl')
         => /\ artist_start_node_count' = artist_start_node_count
            /\ Cardinality(nodes') - artist_start_node_count'
                 >= Cardinality(nodes) - artist_start_node_count
    ]_vars

\* C20 witness: the second seed's crawl has expanded an account on top of the graph
\* the first seed left: nodes of both crawls and their edges are in the graph.
C20_Witness ==
  /\ pc = "loop"
  /\ seed = 2
  /\ ev = "expanded"
  /\ artist_start_node_count >= 1
  /\ Cardinality(nodes) - artist_start_node_count >= 1
  /\ Cardinality(EdgeSet(edges)) >= 2

\* C21: when, at the top of an iteration with a queue that is not empty, the nodes added
\* for the seed are at least MAX_NODES_PER_ARTIST, the next step leaves the crawl: it
\* is the return (or the interrupt), it pops no account, issues no request, marks
\* nothing visited and leaves the graph as it is.
C21_CapStopsCrawl ==
  [][ ( /\ pc = "loop"
        /\ queue # <<>>
        /\ Cardinality(nodes) - artist_start_node_count >= MAX_NODES_PER_ARTIST )
      => /\ pc' \in {"main", "interrupted"}
         /\ pc' = "main" => ev' = "cap_reached"
         /\ user_id' = NoName
         /\ requests' = requests
         /\ visited' = visited
         /\ nodes' = nodes
         /\ edges' = edges
    ]_vars

\* C21 witness: a crawl has returned at the cap with accounts still in its queue: a
\* node of the graph was never popped.
C21_Witness ==
  /\ pc = "main"
  /\ ev = "cap_reached"
  /\ \E n \in nodes : n \notin visited /\ \A r \in requests : r.id # n

\* The names of the records of F and G that carry an integer id.
WithId(F, G) == {Str(r) : r \in {x \in Recs(F) \cup Recs(G) : x.t = "int"}}

\* C23: a record without an "id" field in the followers or followings list contributes
\* nothing to an expansion: every node the expansion creates, every edge it adds and
\* every entry it appends to the queue comes from a record that has an id.
C23_NoIdContributesNothing ==
  [][ (pc = "followings" /\ ev' = "expanded")
      => LET ids == WithId(followers_to_add', followings_to_add')
         IN  /\ nodes' \subseteq nodes \cup ids
             /\ \A e \in DOMAIN edges :
                  edges'[e] # edges[e] => {e[1], e[2]} \subseteq ids \cup {user_id}
             /\ \A i \in (Len(queue) + 1)..Len(queue') : queue'[i] \in ids
    ]_vars

\* C24: every account in the queue and every account in visited is a node of the
\* graph.
C24_FrontierAndVisitedAreNodes ==
  /\ \A i \in 1..Len(queue) : queue[i] \in nodes
  /\ visited \subseteq nodes

\* C24 witness: in a crawl, an account that is not the root waits in the queue and two
\* accounts have been visited.
C24_Witness ==
  /\ pc = "loop"
  /\ queue # <<>>
  /\ Head(queue) # root
  /\ Cardinality(visited) >= 2

\* C22: within one seed's crawl, the followers request for a newly dequeued node is
\* always preceded by a politeness sleep taken after the requests of the node dequeued
\* before it, whatever those requests gave (success, auth error, other error). The
\* step that marks a node visited is the step that issues its followers request;
\* slept is TRUE at the start of a crawl, before its first request.
C22_SleepBetweenNodes ==
  [][ (pc = "loop" /\ visited' # visited) => slept ]_vars

\* The log line of a request answered 401 or 403.
AuthErrors == {"follower_auth_error", "following_auth_error"}

\* C22 (amended): within one seed's crawl, the step that ends the requests of a
\* dequeued node ends with a sleep whatever they gave (success, exception, error
\* status, body that does not parse), unless a request was answered 401 or 403: that
\* node is skipped at once. Popping an account already visited issues no request and
\* takes or loses no sleep, so the sleep is still in force when the next node is
\* requested.
C22_SleepUnlessAuthError ==
  [][ /\ ( /\ pc' = "loop"
           /\ \/ pc = "followings"
              \/ pc = "loop" /\ visited' # visited )
         => (slept' \/ ev' \in AuthErrors)
      /\ (pc = "loop" /\ pc' = "loop" /\ visited' = visited) => slept' = slept
    ]_vars

\* A node other than the root had a request fail with an error status, the crawl
\* slept, and the frontier holds an unvisited node whose requests come next.
C22_Witness ==
  /\ pc = "loop"
  /\ ev \in {"follower_error", "following_error"}
  /\ user_id # root
  /\ slept
  /\ queue # <<>>
  /\ Head(queue) \notin visited
  /\ ~CapReached(nodes, artist_start_node_count)

====
